---- MODULE Spec2Model ----
(***************************************************************************)
(* Model of main.py: a FastAPI service with four endpoints over the        *)
(* DynamoDB table "BFS", keyed by the composite key (ID, CITY).            *)
(*                                                                         *)
(* Python values are modelled with their type: [type, val].  A request is  *)
(* received (body validation by the Item model, then get_table()), waits   *)
(* in flight for its single storage call, and completes: the storage call  *)
(* acts atomically on the table and the rest of the handler builds the     *)
(* response.  `last` is the response the latest step sent (none when it    *)
(* sent none), together with what the table and the key's history were     *)
(* when its storage call ran.                                              *)
(***************************************************************************)
EXTENDS Bags, FiniteSets, Integers, Sequences, TLC

\* Largest number of requests waiting for their storage call at once.
NumWorkers == 2

\* ---------------------------------------------------------------- values

S(v) == [type |-> "str", val |-> v]
PyInt(v) == [type |-> "int", val |-> v]

ItemFields == {"ID", "CITY", "state", "name"}

\* The composite keys requests address: (ID, CITY) pairs.
Keys == {<<S("123"), S("Seattle")>>, <<S("123"), S("Nowhere")>>,
         <<S("999"), S("Seattle")>>}

\* The order in which a scan of the table enumerates keys (fixed by the
\* storage engine, unknown to the service).
KeyOrder == << <<S("123"), S("Seattle")>>, <<S("999"), S("Seattle")>>,
               <<S("123"), S("Nowhere")>> >>

\* One scan call returns at most one page (DynamoDB: 1 MB of data); the
\* model's items have unit size.
ScanPageLimit == 2

\* Well-formed request bodies: one record for every key, and a second,
\* different record for the key ("123", "Seattle").
ValidBodies ==
    {[ID |-> k[1], CITY |-> k[2], state |-> S("WA"), name |-> S("Widget")] :
        k \in Keys}
    \cup {[ID |-> S("123"), CITY |-> S("Seattle"), state |-> S("OR"),
           name |-> S("Gadget")]}

\* Request bodies the validator has to refuse, and one it accepts after
\* dropping an attribute the model does not declare.
NumericIdBody ==
    [ID |-> PyInt("123"), CITY |-> S("Seattle"), state |-> S("WA"),
     name |-> S("Widget")]
MissingNameBody == [ID |-> S("123"), CITY |-> S("Seattle"), state |-> S("WA")]
NumericNameBody ==
    [ID |-> S("999"), CITY |-> S("Seattle"), state |-> S("WA"),
     name |-> PyInt("7")]
ExtraFieldBody ==
    [ID |-> S("999"), CITY |-> S("Seattle"), state |-> S("WA"),
     name |-> S("Widget"), zip |-> S("98101")]

Bodies == ValidBodies \cup
          {NumericIdBody, MissingNameBody, NumericNameBody, ExtraFieldBody}

\* Errors a storage call can raise instead of answering: a ClientError
\* (the engine rejected the call) or another botocore error (no answer).
Faults == {"ClientError", "BotoCoreError"}
Outcomes == {"ok"} \cup Faults

\* ------------------------------------------------------ Record Validator

check_all_are_str(v) == v.type = "str"

ItemValid_keys_only(c) ==
    \A f \in ItemFields :
        f \in DOMAIN c /\ (f \in {"ID", "CITY"} => check_all_are_str(c[f]))

\* Item(**candidate) succeeds: every field present and accepted by the
\* pre-validator; undeclared attributes are ignored.
ItemValid(c) ==
    \A f \in ItemFields : f \in DOMAIN c /\ check_all_are_str(c[f])

\* Item(**candidate).dict()
ItemDict(c) == [f \in ItemFields |-> c[f]]

KeyOf(item) == <<item["ID"], item["CITY"]>>

\* --------------------------------------------------------- storage calls

put_item_if_absent(tbl, item) ==
    IF KeyOf(item) \in DOMAIN tbl THEN tbl
    ELSE [k \in DOMAIN tbl \cup {KeyOf(item)} |->
            IF k = KeyOf(item) THEN item ELSE tbl[k]]

\* Table.put_item(Item=...): the whole item replaces whatever the key held.
put_item(tbl, item) ==
    [k \in DOMAIN tbl \cup {KeyOf(item)} |->
        IF k = KeyOf(item) THEN item ELSE tbl[k]]

\* Table.get_item(Key=...): response.get('Item'), as a sequence of 0 or 1.
get_item(tbl, key) == IF key \in DOMAIN tbl THEN <<tbl[key]>> ELSE <<>>

RECURSIVE ScanFrom(_, _)
ScanFrom(tbl, i) ==
    IF i > Len(KeyOrder) THEN <<>>
    ELSE (IF KeyOrder[i] \in DOMAIN tbl THEN <<tbl[KeyOrder[i]]>> ELSE <<>>)
         \o ScanFrom(tbl, i + 1)

\* Every item of the table, in the engine's enumeration order.
AllItems(tbl) == ScanFrom(tbl, 1)

\* Table.scan(): response.get('Items', []) holds the first page only.
scan(tbl) ==
    IF Len(AllItems(tbl)) <= ScanPageLimit THEN AllItems(tbl)
    ELSE SubSeq(AllItems(tbl), 1, ScanPageLimit)

delete_unconditional(tbl, key) ==
    [ok |-> TRUE, tbl |-> [k \in DOMAIN tbl \ {key} |-> tbl[k]]]

\* Table.delete_item(Key=..., ConditionExpression='attribute_exists(ID) AND
\* attribute_exists(CITY)'): ok = FALSE is ConditionalCheckFailedException.
delete_conditional(tbl, key) ==
    IF key \in DOMAIN tbl
    THEN [ok |-> TRUE, tbl |-> [k \in DOMAIN tbl \ {key} |-> tbl[k]]]
    ELSE [ok |-> FALSE, tbl |-> tbl]

\* -------------------------------------------------------------- handlers

\* What a handler leaves behind: the table after its storage call and the
\* HTTP response (status, kind of result, returned items, message).
Result(tbl, status, kind, out, detail) ==
    [tbl |-> tbl, status |-> status, kind |-> kind, out |-> out,
     detail |-> detail]

\* An exception no handler catches: the framework answers 500 with its own
\* fixed text, the cause is not reported.
Unhandled(tbl) ==
    Result(tbl, 500, "Unhandled", <<>>, <<"Internal Server Error">>)

get_table_unchecked(h) == TRUE

\* get_table(): TRUE when it returns the table, FALSE when it raises 503.
get_table(h) == h # "None"

Unavailable ==
    [status |-> 503, kind |-> "StorageUnavailable",
     detail |-> <<"Database connection not available">>]

ShapeError ==
    [status |-> 422, kind |-> "ShapeError",
     detail |-> <<"please check the input values please enter string values only">>]

\* create_item after get_table(): put_item, then echo the item.
create_item(item, tbl, o) ==
    IF o = "ok"
    THEN Result(put_item(tbl, item), 201, "Record", <<item>>, <<>>)
    ELSE Unhandled(tbl)

\* read_item after get_table(): get_item, 404 when absent, else Item(**item).
read_item(key, tbl, o) ==
    IF o # "ok" THEN Unhandled(tbl)
    ELSE IF get_item(tbl, key) = <<>>
    THEN Result(tbl, 404, "NotFound", <<>>, <<"Item not found">>)
    ELSE IF ItemValid(get_item(tbl, key)[1])
    THEN Result(tbl, 200, "Record", <<ItemDict(get_item(tbl, key)[1])>>, <<>>)
    ELSE Unhandled(tbl)

\* read_all_items after get_table(): scan, then Item(**item) for each item.
read_all_items(tbl, o) ==
    IF o # "ok" THEN Unhandled(tbl)
    ELSE IF \A i \in 1..Len(scan(tbl)) : ItemValid(scan(tbl)[i])
    THEN Result(tbl, 200, "Records",
                [i \in 1..Len(scan(tbl)) |-> ItemDict(scan(tbl)[i])], <<>>)
    ELSE Unhandled(tbl)

DeletedMessage(key) ==
    <<"Item with ID '", key[1].val, "' and City '", key[2].val,
      "' deleted successfully.">>

NotFoundMessage(key) ==
    <<"Item with ID '", key[1].val, "' and City '", key[2].val,
      "' not found.">>

delete_item_keeps(key, tbl, o) ==
    IF o = "ok"
    THEN IF delete_conditional(tbl, key).ok
         THEN Result(tbl, 200, "Confirmation", <<>>, DeletedMessage(key))
         ELSE Result(tbl, 404, "NotFound", <<>>, NotFoundMessage(key))
    ELSE IF o = "ClientError"
    THEN Result(tbl, 500, "StorageFailure", <<>>,
                <<"An unexpected error occurred: ", o>>)
    ELSE Unhandled(tbl)

delete_item_idempotent(key, tbl, o) ==
    IF o = "ok"
    THEN Result(delete_conditional(tbl, key).tbl, 200, "Confirmation",
                <<>>, DeletedMessage(key))
    ELSE IF o = "ClientError"
    THEN Result(tbl, 500, "StorageFailure", <<>>,
                <<"An unexpected error occurred: ", o>>)
    ELSE Unhandled(tbl)

\* delete_item after get_table(): conditional delete; the failed condition
\* is 404, any other ClientError is 500 with its cause, other exceptions
\* are not caught.
delete_item(key, tbl, o) ==
    IF o = "ok"
    THEN IF delete_conditional(tbl, key).ok
         THEN Result(delete_conditional(tbl, key).tbl, 200, "Confirmation",
                     <<>>, DeletedMessage(key))
         ELSE Result(tbl, 404, "NotFound", <<>>, NotFoundMessage(key))
    ELSE IF o = "ClientError"
    THEN Result(tbl, 500, "StorageFailure", <<>>,
                <<"An unexpected error occurred: ", o>>)
    ELSE Unhandled(tbl)

\* ----------------------------------------------------------------- state

VARIABLES
    startup,    \* "pending", or how startup_event ended:
                \* "ok", "ClientError" (caught) or "OtherError" (escaped)
    table,      \* the module global `table`: "None" or "Table"
    BFS,        \* the items of the DynamoDB table, by composite key
    inflight,   \* bag of requests that passed get_table() and wait for
                \* their storage call
    hist,       \* per key: the last Create that took effect, or that a
                \* Delete succeeded after it (history, not program state)
    last        \* the response the latest step sent, NoResponse if none

vars == <<startup, table, BFS, inflight, hist, last>>

EmptyTable == [k \in {} |-> <<>>]

NoResponse ==
    [op |-> "none", body |-> <<>>, key |-> <<>>, status |-> 0,
     kind |-> "none", out |-> <<>>, detail |-> <<>>, calls |-> 0,
     fault |-> "none", prior |-> <<>>, held |-> <<>>, changed |-> FALSE]

Init ==
    /\ startup = "pending"
    /\ table = "None"
    /\ BFS = EmptyTable
    /\ inflight = EmptyBag
    /\ hist = [k \in Keys |-> [st |-> "never", rec |-> <<>>, over |-> FALSE]]
    /\ last = NoResponse

\* The process serves requests once startup_event has returned.
Serving == startup \in {"ok", "ClientError"}

\* The global after startup_event: line 83 assigns the Table resource,
\* then table.load() answers, raises ClientError (caught: table = None) or
\* raises another exception (not caught: the assignment of line 83 stays).
table_after_startup(outcome) ==
    IF outcome = "ClientError" THEN "None" ELSE "Table"

startup_event ==
    /\ startup = "pending"
    /\ \E outcome \in {"ok", "ClientError", "OtherError"} :
          /\ startup' = outcome
          /\ table' = table_after_startup(outcome)
    /\ last' = NoResponse
    /\ UNCHANGED <<BFS, inflight, hist>>

\* A response sent without any storage call.
Refuse(op, body, key, r) ==
    last' = [op |-> op, body |-> body, key |-> key, status |-> r.status,
             kind |-> r.kind, out |-> <<>>, detail |-> r.detail,
             calls |-> 0, fault |-> "none", prior |-> <<>>, held |-> <<>>,
             changed |-> FALSE]

Admit(rq) ==
    /\ BagCardinality(inflight) < NumWorkers
    /\ inflight' = inflight (+) SetToBag({rq})
    /\ last' = NoResponse

\* POST /items/: the framework builds Item from the body (422 on failure),
\* then create_item runs up to its storage call.
PostItems ==
    /\ Serving
    /\ \E body \in Bodies :
          IF ~ItemValid(body)
          THEN Refuse("create", <<body>>, <<>>, ShapeError)
               /\ UNCHANGED inflight
          ELSE IF ~get_table(table)
          THEN Refuse("create", <<body>>, <<>>, Unavailable)
               /\ UNCHANGED inflight
          ELSE Admit([op |-> "create", item |-> <<ItemDict(body)>>,
                      key |-> <<KeyOf(ItemDict(body))>>])
    /\ UNCHANGED <<startup, table, BFS, hist>>

\* GET /items/{id}/{city}, GET /items/ and DELETE /items/{id}/{city} up to
\* their storage call.
Receive(op, key) ==
    /\ Serving
    /\ IF ~get_table(table)
       THEN Refuse(op, <<>>, key, Unavailable) /\ UNCHANGED inflight
       ELSE Admit([op |-> op, item |-> <<>>, key |-> key])
    /\ UNCHANGED <<startup, table, BFS, hist>>

GetItem == \E k \in Keys : Receive("get", <<k>>)

GetItems == Receive("list", <<>>)

DeleteItem == \E k \in Keys : Receive("delete", <<k>>)

\* The rest of a handler: its storage call and the response built from it.
Handle(rq, tbl, o) ==
    IF rq.op = "create" THEN create_item(rq.item[1], tbl, o)
    ELSE IF rq.op = "get" THEN read_item(rq.key[1], tbl, o)
    ELSE IF rq.op = "list" THEN read_all_items(tbl, o)
    ELSE delete_item(rq.key[1], tbl, o)

\* History of a key after a response: a Create that answered 201 took
\* effect (over: on top of an earlier Create of a different record), a
\* Delete that answered 200 succeeded.
HistAfter(rq, res) ==
    IF rq.op = "create" /\ res.status = 201
    THEN [hist EXCEPT ![rq.key[1]] =
            [st |-> "created", rec |-> rq.item,
             over |-> hist[rq.key[1]].st = "created"
                      /\ hist[rq.key[1]].rec # rq.item]]
    ELSE IF rq.op = "delete" /\ res.status = 200
    THEN [hist EXCEPT ![rq.key[1]] =
            [st |-> "deleted", rec |-> <<>>, over |-> FALSE]]
    ELSE hist

Complete(rq, o) ==
    /\ BagIn(rq, inflight)
    /\ inflight' = inflight (-) SetToBag({rq})
    /\ BFS' = Handle(rq, BFS, o).tbl
    /\ hist' = HistAfter(rq, Handle(rq, BFS, o))
    /\ last' = [op |-> rq.op, body |-> rq.item, key |-> rq.key,
                status |-> Handle(rq, BFS, o).status,
                kind |-> Handle(rq, BFS, o).kind,
                out |-> Handle(rq, BFS, o).out,
                detail |-> Handle(rq, BFS, o).detail,
                calls |-> 1,
                fault |-> IF o = "ok" THEN "none" ELSE o,
                prior |-> IF rq.key = <<>> THEN <<>> ELSE <<hist[rq.key[1]]>>,
                held |-> IF rq.key = <<>> THEN AllItems(BFS)
                         ELSE get_item(BFS, rq.key[1]),
                changed |-> Handle(rq, BFS, o).tbl # BFS]

StorageCall_invalidates ==
    \E rq \in BagToSet(inflight), o \in Outcomes :
        /\ Complete(rq, o)
        /\ startup' = startup
        /\ table' = IF o = "ok" THEN table ELSE "None"

\* One waiting request runs its storage call; no handler assigns the
\* global `table`.
StorageCall ==
    \E rq \in BagToSet(inflight), o \in Outcomes :
        /\ Complete(rq, o)
        /\ UNCHANGED <<startup, table>>

Next ==
    \/ startup_event
    \/ PostItems
    \/ GetItem
    \/ GetItems
    \/ DeleteItem
    \/ StorageCall

Spec == Init /\ [][Next]_vars

\* ---------------------------------------------------------------- claims

\* A candidate record is well formed: four fields, all strings.
FourStrings(c) == \A f \in ItemFields : f \in DOMAIN c /\ c[f].type = "str"

\* C1: with the handle Ready, a Get whose storage call answers, on a key whose latest effective
\* operation is a Create of r (no successful Delete since), returns 200
\* with exactly r: the latest Create wins as a whole record.
C1_GetReturnsLatestCreate ==
    (table = "Table" /\ last.op = "get" /\ last.fault = "none"
        /\ last.prior[1].st = "created")
        => /\ last.status = 200
           /\ last.out = last.prior[1].rec
           /\ \A f \in ItemFields : last.out[1][f] = last.prior[1].rec[1][f]

\* A Get returned the record of a Create that had overwritten a different
\* record under the same key.
C1_Witness ==
    /\ last.op = "get"
    /\ last.status = 200
    /\ last.prior[1].st = "created"
    /\ last.prior[1].over
    /\ last.out = last.prior[1].rec

\* C2: with the handle Ready, a Delete on a key the table holds no record for never answers
\* success, leaves the table as it was, and answers 404 NotFound whenever
\* the storage call itself answers.
C2_DeleteAbsentIsNotFound ==
    (table = "Table" /\ last.op = "delete" /\ last.held = <<>>)
        => /\ last.status # 200
           /\ last.kind # "Confirmation"
           /\ ~last.changed
           /\ last.fault = "none"
                => /\ last.status = 404
                   /\ last.kind = "NotFound"
                   /\ last.detail = NotFoundMessage(last.key[1])

\* A Delete on a key that was never created answered 404.
C2_Witness ==
    /\ table = "Table"
    /\ last.op = "delete"
    /\ last.held = <<>>
    /\ last.prior[1].st = "never"
    /\ last.status = 404

\* C3: with the handle Ready, a Delete that follows a Create on its key answers the success
\* confirmation, and after a successful Delete every Get and every Delete
\* on the key answers 404 until the next Create on it takes effect
\* (storage calls that answer).
C3_DeleteThenNotFound ==
    /\ (table = "Table" /\ last.op = "delete" /\ last.fault = "none"
            /\ last.prior[1].st = "created")
          => /\ last.status = 200
             /\ last.kind = "Confirmation"
             /\ last.detail = DeletedMessage(last.key[1])
    /\ (table = "Table" /\ last.op \in {"get", "delete"}
            /\ last.fault = "none" /\ last.prior[1].st = "deleted")
          => /\ last.status = 404
             /\ last.kind = "NotFound"

\* A Get after a successful Delete answered 404.
C3_Witness ==
    /\ table = "Table"
    /\ last.op = "get"
    /\ last.prior[1].st = "deleted"
    /\ last.status = 404

\* C4 as stated: with the handle Unavailable every response, a Create with
\* a malformed body included, is 503 StorageUnavailable with no storage call.
C4_UnavailableAlways503 ==
    (table = "None" /\ last.op # "none")
        => /\ last.status = 503
           /\ last.kind = "StorageUnavailable"
           /\ last.calls = 0

\* C4 amended: with the handle Unavailable no request issues a storage call;
\* a Create with a malformed body answers 422 ShapeError, every other
\* request answers 503 StorageUnavailable.
C4_UnavailableRefuses ==
    (table = "None" /\ last.op # "none")
        => /\ last.calls = 0
           /\ ~last.changed
           /\ BFS = EmptyTable
           /\ IF last.op = "create" /\ ~FourStrings(last.body[1])
              THEN last.status = 422 /\ last.kind = "ShapeError"
              ELSE last.status = 503 /\ last.kind = "StorageUnavailable"

\* A well-formed Create was refused with 503 while the handle was None.
C4_Witness ==
    /\ table = "None"
    /\ last.op = "create"
    /\ FourStrings(last.body[1])
    /\ last.status = 503

\* C5: a Create whose body misses a field or holds a non-string answers
\* 422 ShapeError, issues no storage call and leaves the table unchanged.
C5_MalformedCreateIsShapeError ==
    (last.op = "create" /\ ~FourStrings(last.body[1]))
        => /\ last.status = 422
           /\ last.kind = "ShapeError"
           /\ last.calls = 0
           /\ ~last.changed

\* A Create with a numeric name was refused with 422 while the handle was
\* Ready.
C5_Witness ==
    /\ table = "Table"
    /\ last.op = "create"
    /\ last.body = <<NumericNameBody>>
    /\ last.status = 422

\* C6 as stated: startup ends by returning, with the handle Ready when the
\* check succeeded and None when it failed for any cause.
C6_StartupReadyOrUnavailable ==
    startup # "pending"
        => /\ startup \in {"ok", "ClientError"}
           /\ startup = "ok" => table = "Table"
           /\ startup # "ok" => table = "None"

\* C7: once startup has ended, no step changes the handle.
C7_HandleFixedAfterStartup == [][startup # "pending" => table' = table]_vars

\* A storage call failed under a Ready handle, and the handle is still Ready.
C7_Witness ==
    /\ table = "Table"
    /\ last.fault # "none"
    /\ last.status = 500

C9_StorageErrorsTranslated ==
    last.fault # "none"
        => /\ last.status = 500
           /\ last.kind = "StorageFailure"
           /\ last.detail = <<"An unexpected error occurred: ", last.fault>>

\* C10: under every interleaving, a Delete answers success only when its
\* storage call finds and removes the record of a Create that took effect
\* before it and that no earlier successful Delete has removed; each
\* success uses up one Create, so successes never outnumber Creates.
C10_DeleteSuccessUsesOneCreate ==
    (last.op = "delete" /\ last.status = 200)
        => /\ last.prior[1].st = "created"
           /\ last.held = last.prior[1].rec
           /\ last.changed
           /\ get_item(BFS, last.key[1]) = <<>>

\* Of two Deletes in flight together on a key holding one record, one has
\* answered success and the other is still waiting for its storage call.
C10_Witness ==
    /\ last.op = "delete"
    /\ last.status = 200
    /\ BagIn([op |-> "delete", item |-> <<>>, key |-> last.key], inflight)

====
